---- MODULE Spec2Model ----
(***************************************************************************)
(* Model of climate_fairness_analysis.py: main() runs load_and_merge,      *)
(* normalize, compute_cfi, cluster_countries and create_visualizations in  *)
(* sequence over three CSV datasets.                                       *)
(*                                                                         *)
(* Numbers.  Raw indicator values are naturals.  Min-max values are exact  *)
(* fractions [n, d]; CFI values and quantile edges are exact rationals     *)
(* whose numerator and denominator are naturals written in base            *)
(* EpsilonInv (little-endian digit sequences), so that epsilon = 1e-6 is   *)
(* represented exactly as 1 / EpsilonInv.  The model is therefore the      *)
(* program over the reals: the rounding of IEEE doubles is not modelled.   *)
(*                                                                         *)
(* Left out: the z-score columns of normalize (irrational values, read     *)
(* only by KMeans) and the cluster ids KMeans computes; of                 *)
(* cluster_countries only the outcome (returns / raises) is modelled.      *)
(***************************************************************************)
EXTENDS Integers, Sequences, FiniteSets, TLC

VARIABLES co2, poverty, revenue, df, year, pc, exc, outputs, printed

vars == <<co2, poverty, revenue, df, year, pc, exc, outputs, printed>>

\* ---------------------------------------------------------------- bounds
MaxYear == 3
MaxRows == 2
MaxVal == 2
MaxDropped == 3

\* ------------------------------------------------------ program constants
\* epsilon = 1e-6 = 1 / EpsilonInv
EpsilonInv == 1000000
\* pd.qcut(df['CFI'], 10, ...)
NumDeciles == 10
\* cluster_countries(df, n_clusters=4)
n_clusters == 4

\* A missing value (NaN / None).  Raw values and years are >= 0.
NaN == 0 - 1
None == 0 - 2

\* ------------------------------------------- naturals in base EpsilonInv
\* A natural is five little-endian digits: d[1] + d[2] * EpsilonInv + ...,
\* the digits 1..4 below the base.
\* carries over the digits that reached the base
BNorm(a) ==
    LET t2 == a[2] + a[1] \div EpsilonInv
        t3 == a[3] + t2 \div EpsilonInv
        t4 == a[4] + t3 \div EpsilonInv
    IN  <<a[1] % EpsilonInv, t2 % EpsilonInv, t3 % EpsilonInv, t4 % EpsilonInv,
          a[5] + t4 \div EpsilonInv>>

BNat(k) == BNorm(<<k, 0, 0, 0, 0>>)

BAdd(a, b) == BNorm(<<a[1] + b[1], a[2] + b[2], a[3] + b[3], a[4] + b[4], a[5] + b[5]>>)

\* no term of the product a * b lies beyond the fifth digit
Fits(a, b) ==
    /\ a[5] = 0 \/ (b[2] = 0 /\ b[3] = 0 /\ b[4] = 0 /\ b[5] = 0)
    /\ a[4] = 0 \/ (b[3] = 0 /\ b[4] = 0 /\ b[5] = 0)
    /\ a[3] = 0 \/ (b[4] = 0 /\ b[5] = 0)
    /\ a[2] = 0 \/ b[5] = 0

\* the product; not defined (an evaluation error) when it needs a sixth digit
BMul(a, b) ==
    IF Fits(a, b)
    THEN BNorm(<<a[1] * b[1],
                 a[1] * b[2] + a[2] * b[1],
                 a[1] * b[3] + a[2] * b[2] + a[3] * b[1],
                 a[1] * b[4] + a[2] * b[3] + a[3] * b[2] + a[4] * b[1],
                 a[1] * b[5] + a[2] * b[4] + a[3] * b[3] + a[4] * b[2] + a[5] * b[1]>>)
    ELSE CHOOSE x \in {} : TRUE

RECURSIVE BCmpFrom(_, _, _)
\* compares the digits i, i-1, ..., 1 of a and b: -1, 0 or 1
BCmpFrom(a, b, i) ==
    IF i = 0 THEN 0
    ELSE IF a[i] < b[i] THEN 0 - 1
    ELSE IF a[i] > b[i] THEN 1
    ELSE BCmpFrom(a, b, i - 1)

BCmp(a, b) == BCmpFrom(a, b, 5)

\* -------------------------------------------------------------- rationals
Rat(n, d) == [num |-> n, den |-> d]
RatOf(f) == Rat(BNat(f.n), BNat(f.d))
RMul(a, b) == Rat(BMul(a.num, b.num), BMul(a.den, b.den))
RAdd(a, b) == Rat(BAdd(BMul(a.num, b.den), BMul(b.num, a.den)), BMul(a.den, b.den))
RDiv(a, b) == Rat(BMul(a.num, b.den), BMul(a.den, b.num))
RScale(k, a) == Rat(BMul(BNat(k), a.num), a.den)
RCmp(a, b) == BCmp(BMul(a.num, b.den), BMul(b.num, a.den))
RLt(a, b) == RCmp(a, b) < 0
RLe(a, b) == RCmp(a, b) <= 0
REq(a, b) == RCmp(a, b) = 0
RZero == Rat(BNat(0), BNat(1))
ROne == Rat(BNat(1), BNat(1))
epsilon == Rat(BNat(1), BNat(EpsilonInv))

\* ------------------------------------------------------- sequence helpers
\* F(v), with v evaluated once
Once(F(_), v) == CHOOSE r \in {F(x) : x \in {v}} : TRUE

Range(s) == {s[i] : i \in 1..Len(s)}
SeqsUpTo(S, n) == UNION {[1..k -> S] : k \in 0..n}

RECURSIVE Where(_, _)
\* the rows r of s with Keep[r], in order: df[mask]
Where(s, Keep) ==
    IF s = <<>> THEN <<>>
    ELSE (IF Keep[Head(s)] THEN <<Head(s)>> ELSE <<>>) \o Where(Tail(s), Keep)

\* ------------------------------------------------------- load_and_merge
\* Series.max(): the largest value, NaN for an empty column
SeriesMax(col) ==
    IF col = <<>> THEN NaN
    ELSE CHOOSE m \in Range(col) : \A v \in Range(col) : v <= m

\* Python's <: every comparison with NaN is False
PyLess(a, b) == a # NaN /\ b # NaN /\ a < b

\* Python's builtin min(a, b, c): keeps the first, replaces it by a later
\* argument only when that one compares strictly smaller
PyMin3(a, b, c) ==
    LET m1 == IF PyLess(b, a) THEN b ELSE a
    IN  IF PyLess(c, m1) THEN c ELSE m1

YearColumn(ds) == [i \in 1..Len(ds) |-> ds[i].year]

\* max_common = min(co2['year'].max(), poverty['year'].max(), revenue['year'].max())
max_common(c, p, r) ==
    PyMin3(SeriesMax(YearColumn(c)), SeriesMax(YearColumn(p)), SeriesMax(YearColumn(r)))

\* year = latest_year or max_common
SelectYear(latest_year, c, p, r) ==
    IF latest_year = None \/ latest_year = 0 THEN max_common(c, p, r) ELSE latest_year

\* ds[ds['year'] == y][['country', <field>]]
Co2Y(ds, y) ==
    LET kept == Where(ds, [r \in Range(ds) |-> r.year # NaN /\ y # NaN /\ r.year = y])
    IN  [i \in 1..Len(kept) |->
           [country |-> kept[i].country, co2_per_capita |-> kept[i].co2_per_capita]]

PovY(ds, y) ==
    LET kept == Where(ds, [r \in Range(ds) |-> r.year # NaN /\ y # NaN /\ r.year = y])
    IN  [i \in 1..Len(kept) |->
           [country |-> kept[i].country,
            extreme_poverty_share |-> kept[i].extreme_poverty_share]]

RevY(ds, y) ==
    LET kept == Where(ds, [r \in Range(ds) |-> r.year # NaN /\ y # NaN /\ r.year = y])
    IN  [i \in 1..Len(kept) |->
           [country |-> kept[i].country, revenue_gap_pct |-> kept[i].revenue_gap_pct]]

\* a join that ignores the key: every row of right combined with l
MatchRowsCross(l, right) == [i \in 1..Len(right) |-> l @@ right[i]]

RECURSIVE MatchRows(_, _)
\* the rows of right that join with the left row l, each combined with l
MatchRows(l, right) ==
    IF right = <<>> THEN <<>>
    ELSE (IF Head(right).country = l.country THEN <<l @@ Head(right)>> ELSE <<>>)
         \o MatchRows(l, Tail(right))

RECURSIVE Merge(_, _)
\* left.merge(right, on='country'): the inner join, one row per matching pair
Merge(left, right) ==
    IF left = <<>> THEN <<>>
    ELSE MatchRows(Head(left), right) \o Merge(Tail(left), right)

\* a table kept whole, rows with missing values included
DropNaNothing(t) == t

\* df.dropna(): the rows with no missing value
DropNa(t) ==
    Where(t, [r \in Range(t) |-> /\ r.co2_per_capita # NaN
                                 /\ r.extreme_poverty_share # NaN
                                 /\ r.revenue_gap_pct # NaN])

MergedTable(c, p, r, y) == DropNa(Merge(Merge(Co2Y(c, y), PovY(p, y)), RevY(r, y)))

\* ------------------------------------------------------------ normalize
ColMin(col) == CHOOSE m \in Range(col) : \A v \in Range(col) : m <= v
ColMax(col) == CHOOSE m \in Range(col) : \A v \in Range(col) : v <= m

\* a scaler that divides by 1 whatever the data range
DataRangeUnscaled(col) == 1

\* MinMaxScaler: a zero data range is replaced by 1 before dividing
DataRange(col) ==
    IF ColMax(col) - ColMin(col) = 0 THEN 1 ELSE ColMax(col) - ColMin(col)

\* a scaler that does not subtract the minimum: x / (max - min)
MinMaxScaleNoShift(col) ==
    [i \in 1..Len(col) |-> [n |-> col[i], d |-> DataRange(col)]]

\* MinMaxScaler().fit_transform on one column: (x - min) / (max - min)
MinMaxScale(col) ==
    [i \in 1..Len(col) |-> [n |-> col[i] - ColMin(col), d |-> DataRange(col)]]

\* scalers that accept an array with 0 samples
NormalizeNeverRaises(t) == FALSE

\* MinMaxScaler / StandardScaler reject an array with 0 samples (ValueError)
NormalizeRaises(t) == Len(t) = 0

Normalized(t) ==
    LET cm == MinMaxScale([i \in 1..Len(t) |-> t[i].co2_per_capita])
        pm == MinMaxScale([i \in 1..Len(t) |-> t[i].extreme_poverty_share])
        rm == MinMaxScale([i \in 1..Len(t) |-> t[i].revenue_gap_pct])
    IN  [i \in 1..Len(t) |->
           t[i] @@ [co2_mm |-> cm[i], poverty_mm |-> pm[i], revenue_mm |-> rm[i]]]

\* ---------------------------------------------------------- compute_cfi
\* an index that multiplies by the emission term instead of dividing by it
CFIOfProduct(row) ==
    RMul(RMul(RatOf(row.poverty_mm), RatOf(row.revenue_mm)),
         RAdd(RatOf(row.co2_mm), epsilon))

\* (poverty_mm * revenue_mm) / (co2_mm + epsilon)
CFIOf(row) ==
    RDiv(RMul(RatOf(row.poverty_mm), RatOf(row.revenue_mm)),
         RAdd(RatOf(row.co2_mm), epsilon))

\* Series.rank(ascending=True): the positions in the ascending order
RankAscending(col) ==
    [i \in 1..Len(col) |->
       LET cmp == [j \in 1..Len(col) |-> RCmp(col[i], col[j])]
           above == Cardinality({j \in 1..Len(col) : cmp[j] > 0})
           ties == Cardinality({j \in 1..Len(col) : cmp[j] = 0})
       IN  [n |-> 2 * above + ties + 1, d |-> 2]]

\* Series.rank(ascending=False), method 'average': the mean of the positions
\* the value's ties take in the descending order, as the fraction n / 2
RankDescending(col) ==
    [i \in 1..Len(col) |->
       LET cmp == [j \in 1..Len(col) |-> RCmp(col[i], col[j])]
           above == Cardinality({j \in 1..Len(col) : cmp[j] < 0})
           ties == Cardinality({j \in 1..Len(col) : cmp[j] = 0})
       IN  [n |-> 2 * above + ties + 1, d |-> 2]]

RECURSIVE Insert(_, _)
Insert(x, s) ==
    IF s = <<>> THEN <<x>>
    ELSE IF RLe(x, Head(s)) THEN <<x>> \o s
    ELSE <<Head(s)>> \o Insert(x, Tail(s))

RECURSIVE SortAsc(_)
SortAsc(s) == IF s = <<>> THEN <<>> ELSE Insert(Head(s), SortAsc(Tail(s)))

\* Series.quantile(k / q), linear interpolation, on the sorted values:
\* position (n - 1) * k / q, between the two neighbouring values
Quantile(sorted, k, q) ==
    LET h == (Len(sorted) - 1) * k
        lo == h \div q
        f == h % q
    IN  IF f = 0 THEN sorted[lo + 1]
        ELSE LET s == RAdd(RScale(q - f, sorted[lo + 1]), RScale(f, sorted[lo + 2]))
             IN  Rat(s.num, BMul(BNat(q), s.den))

\* the q + 1 bin edges of pd.qcut(col, q)
BinEdges(col, q) ==
    LET F(sorted) == [k \in 0..q |-> Quantile(sorted, k, q)] IN Once(F, SortAsc(col))

\* qcut raises ValueError("Bin edges must be unique") when the distinct edges
\* are fewer than the edges; the edges ascend, so equal edges are neighbours
QcutRaises(col, q) ==
    \E e \in {BinEdges(col, q)} : \E k \in 1..q : REq(e[k - 1], e[k])

\* a cut with searchsorted(side='right'): it counts the edges at or below
\* the value
QcutSideRight(col, q) ==
    LET F(e) == [i \in 1..Len(col) |->
                   LET ids == Cardinality({k \in 0..q : RLe(e[k], col[i])})
                   IN  (IF REq(col[i], e[0]) THEN 1 ELSE ids) - 1]
    IN  Once(F, BinEdges(col, q))

\* pd.qcut(col, q, labels=False): searchsorted(side='left') counts the edges
\* strictly below the value; a value equal to the lowest edge goes to bin 1
\* (include_lowest); the label is the bin number minus one
Qcut(col, q) ==
    LET F(e) == [i \in 1..Len(col) |->
                   LET ids == Cardinality({k \in 0..q : RLt(e[k], col[i])})
                   IN  (IF REq(col[i], e[0]) THEN 1 ELSE ids) - 1]
    IN  Once(F, BinEdges(col, q))

\* df['CFI'] = ...; df['CFI_rank'] = ...: both columns are assigned to df in
\* place before qcut runs, so df holds them also when qcut raises
WithCfi(t) ==
    LET F(cfi) == LET rank == RankDescending(cfi)
                  IN  [i \in 1..Len(t) |-> t[i] @@ [CFI |-> cfi[i], CFI_rank |-> rank[i]]]
    IN  Once(F, [i \in 1..Len(t) |-> CFIOf(t[i])])

\* pd.qcut(df['CFI'], 10, labels=False) raises on a table that holds CFI
ComputeCfiRaises(t) == QcutRaises([i \in 1..Len(t) |-> t[i].CFI], NumDeciles)

\* df['CFI_decile'] = pd.qcut(df['CFI'], 10, labels=False) + 1
WithDecile(t) ==
    LET dec == Qcut([i \in 1..Len(t) |-> t[i].CFI], NumDeciles)
    IN  [i \in 1..Len(t) |-> t[i] @@ [CFI_decile |-> dec[i] + 1]]

\* ---------------------------------------------------- cluster_countries
\* KMeans.fit_predict raises ValueError when n_samples < n_clusters
ClusterRaises(t) == Len(t) < n_clusters

\* ------------------------------------------------------------- the inputs
\* The three CSV files, as sequences of rows.
Co2Rows(t) ==
    [i \in 1..Len(t) |-> [country |-> t[i][1], year |-> t[i][2], co2_per_capita |-> t[i][3]]]
PovertyRows(t) ==
    [i \in 1..Len(t) |->
       [country |-> t[i][1], year |-> t[i][2], extreme_poverty_share |-> t[i][3]]]
RevenueRows(t) ==
    [i \in 1..Len(t) |-> [country |-> t[i][1], year |-> t[i][2], revenue_gap_pct |-> t[i][3]]]

Start ==
    /\ df = <<>>
    /\ year = None
    /\ pc = "load"
    /\ exc = "none"
    /\ outputs = {}
    /\ printed = FALSE

\* Files of up to MaxRows rows of one country over the years 1..MaxYear.
InitYears ==
    /\ \E a, b, c \in SeqsUpTo({"A"} \X (1..MaxYear) \X {1}, MaxRows) :
          /\ co2 = Co2Rows(a)
          /\ poverty = PovertyRows(b)
          /\ revenue = RevenueRows(c)
    /\ Start

\* Files of up to n rows of one year: two countries, values present or
\* missing, a country possibly repeated or absent.
InitContent(n) ==
    /\ \E a, b, c \in SeqsUpTo({"A", "B"} \X {1} \X {NaN, 1}, n) :
          /\ co2 = Co2Rows(a)
          /\ poverty = PovertyRows(b)
          /\ revenue = RevenueRows(c)
    /\ Start

\* Files holding one row for each of three countries, values in 0..MaxVal,
\* the countries listed in the lexicographic order of <<co2, poverty, revenue>>
\* (the pipeline treats the rows alike, whatever their order).
ValueCountries == <<"A", "B", "C">>
InitValues ==
    /\ \E a, b, c \in [1..Len(ValueCountries) -> 0..MaxVal] :
          /\ \A i \in 1..(Len(ValueCountries) - 1) :
                (a[i] * (MaxVal + 1) + b[i]) * (MaxVal + 1) + c[i]
                   <= (a[i + 1] * (MaxVal + 1) + b[i + 1]) * (MaxVal + 1) + c[i + 1]
          /\ co2 = Co2Rows([i \in 1..Len(ValueCountries) |-> <<ValueCountries[i], 1, a[i]>>])
          /\ poverty = PovertyRows([i \in 1..Len(ValueCountries) |-> <<ValueCountries[i], 1, b[i]>>])
          /\ revenue = RevenueRows([i \in 1..Len(ValueCountries) |-> <<ValueCountries[i], 1, c[i]>>])
    /\ Start

\* A pool of sample countries <<name, co2, poverty, revenue>>; the files hold
\* the rows of the pool but for up to MaxDropped of them.  P01..P12 have
\* pairwise distinct CFI when all are present; P13 ties with P01 at the top.
Pool ==
    << <<"P01", 0, 3, 3>>, <<"P02", 1, 3, 3>>, <<"P03", 2, 3, 3>>, <<"P04", 3, 3, 3>>,
       <<"P05", 0, 2, 3>>, <<"P06", 1, 3, 2>>, <<"P07", 2, 2, 2>>, <<"P08", 3, 1, 3>>,
       <<"P09", 0, 1, 2>>, <<"P10", 1, 1, 1>>, <<"P11", 3, 0, 0>>, <<"P12", 2, 2, 1>>,
       <<"P13", 0, 3, 3>> >>

RECURSIVE Picked(_, _)
\* the pool rows i..Len(Pool) that are not in D, in pool order
Picked(D, i) ==
    IF i > Len(Pool) THEN <<>>
    ELSE (IF i \in D THEN <<>> ELSE <<Pool[i]>>) \o Picked(D, i + 1)

InitPool ==
    /\ \E D \in {X \in SUBSET (1..Len(Pool)) : Cardinality(X) <= MaxDropped} :
          LET t == Picked(D, 1)
          IN  /\ co2 = Co2Rows([i \in 1..Len(t) |-> <<t[i][1], 1, t[i][2]>>])
              /\ poverty = PovertyRows([i \in 1..Len(t) |-> <<t[i][1], 1, t[i][3]>>])
              /\ revenue = RevenueRows([i \in 1..Len(t) |-> <<t[i][1], 1, t[i][4]>>])
    /\ Start

Init == InitContent(1) \/ InitValues \/ InitPool

InitLoad == InitYears \/ InitContent(MaxRows)

\* ------------------------------------------------------------ the actions
\* df, year = load_and_merge()
LoadAndMerge ==
    /\ pc = "load"
    /\ LET y == SelectYear(None, co2, poverty, revenue)
       IN  /\ year' = y
           /\ df' = MergedTable(co2, poverty, revenue, y)
    /\ pc' = "normalize"
    /\ UNCHANGED <<co2, poverty, revenue, exc, outputs, printed>>

\* df = normalize(df)
Normalize ==
    /\ pc = "normalize"
    /\ IF NormalizeRaises(df)
       THEN /\ pc' = "raised"
            /\ exc' = "normalize"
            /\ df' = df
       ELSE /\ pc' = "compute_cfi"
            /\ exc' = exc
            /\ df' = Normalized(df)
    /\ UNCHANGED <<co2, poverty, revenue, year, outputs, printed>>

\* df = compute_cfi(df)
ComputeCfi ==
    /\ pc = "compute_cfi"
    /\ \E t \in {WithCfi(df)} :
           IF ComputeCfiRaises(t)
           THEN /\ pc' = "raised"
                /\ exc' = "compute_cfi"
                /\ df' = t
           ELSE /\ pc' = "cluster_countries"
                /\ exc' = exc
                /\ df' = WithDecile(t)
    /\ UNCHANGED <<co2, poverty, revenue, year, outputs, printed>>

\* df = cluster_countries(df)
ClusterCountries ==
    /\ pc = "cluster_countries"
    /\ IF ClusterRaises(df)
       THEN /\ pc' = "raised"
            /\ exc' = "cluster_countries"
       ELSE /\ pc' = "create_visualizations"
            /\ exc' = exc
    /\ UNCHANGED <<co2, poverty, revenue, df, year, outputs, printed>>

\* create_visualizations(df, year): the three HTML files, in this order
CreateVisualizations ==
    /\ pc = "create_visualizations"
    /\ outputs' = outputs \cup {"cfi_choropleth", "bubble_plot", "cluster_map"}
    /\ pc' = "print"
    /\ UNCHANGED <<co2, poverty, revenue, df, year, exc, printed>>

\* print("Analysis complete. ...")
PrintComplete ==
    /\ pc = "print"
    /\ printed' = TRUE
    /\ pc' = "done"
    /\ UNCHANGED <<co2, poverty, revenue, df, year, exc, outputs>>

Next ==
    \/ LoadAndMerge
    \/ Normalize
    \/ ComputeCfi
    \/ ClusterCountries
    \/ CreateVisualizations
    \/ PrintComplete

\* main() over files of one year
Spec == Init /\ [][Next]_vars

\* load_and_merge() alone, over files of several years
SpecLoad == InitLoad /\ [][LoadAndMerge]_vars


\* ================================================================ claims
Rows == 1..Len(df)
Loaded == pc # "load"
\* normalize returned: df holds the three min-max columns
HasMm ==
    \/ pc \in {"compute_cfi", "cluster_countries", "create_visualizations", "print", "done"}
    \/ pc = "raised" /\ exc \in {"compute_cfi", "cluster_countries"}
\* compute_cfi ran as far as the rank: df holds CFI and CFI_rank
HasCfi ==
    \/ pc \in {"cluster_countries", "create_visualizations", "print", "done"}
    \/ pc = "raised" /\ exc \in {"compute_cfi", "cluster_countries"}
\* compute_cfi returned: df holds CFI_decile too
HasDecile ==
    \/ pc \in {"cluster_countries", "create_visualizations", "print", "done"}
    \/ pc = "raised" /\ exc = "cluster_countries"

FracIs(f, k) == f.n = k * f.d
InUnit(f) == f.d > 0 /\ 0 <= f.n /\ f.n <= f.d
DistinctCfi == \A i, j \in Rows : i # j => ~REq(df[i].CFI, df[j].CFI)
BucketSize(d) == Cardinality({i \in Rows : df[i].CFI_decile = d})
AllDecilesUsedEvenly ==
    /\ \A d \in 1..NumDeciles : BucketSize(d) >= 1
    /\ \A d, e \in 1..NumDeciles : BucketSize(d) - BucketSize(e) <= 1

CountryCount(t, c) == Cardinality({i \in 1..Len(t) : t[i].country = c})
Co2Present(c) ==
    {i \in 1..Len(co2) :
        co2[i].country = c /\ co2[i].year = year /\ co2[i].co2_per_capita # NaN}
PovertyPresent(c) ==
    {i \in 1..Len(poverty) :
        /\ poverty[i].country = c
        /\ poverty[i].year = year
        /\ poverty[i].extreme_poverty_share # NaN}
RevenuePresent(c) ==
    {i \in 1..Len(revenue) :
        /\ revenue[i].country = c
        /\ revenue[i].year = year
        /\ revenue[i].revenue_gap_pct # NaN}
AllCountries ==
    {co2[i].country : i \in 1..Len(co2)} \cup {poverty[i].country : i \in 1..Len(poverty)}
       \cup {revenue[i].country : i \in 1..Len(revenue)} \cup {df[i].country : i \in Rows}

\* C2 (as stated): for any contents of the three datasets, no country appears
\* in more than one row of the table load_and_merge returns.
C2_Original == Loaded => \A i, j \in Rows : i # j => df[i].country # df[j].country

\* C2 (amended): a country has as many rows in the returned table as the
\* product of the numbers of its rows for the selected year with a present
\* value in the three datasets; so no country appears twice when no dataset
\* holds two such rows of it.
C2_Amended ==
    Loaded =>
       \A c \in AllCountries :
          CountryCount(df, c) =
             Cardinality(Co2Present(c)) * Cardinality(PovertyPresent(c))
                * Cardinality(RevenuePresent(c))

\* two countries returned, one row each, from files that hold two rows each
C2_Witness ==
    /\ Loaded
    /\ Len(df) = 2
    /\ df[1].country # df[2].country
    /\ Len(co2) = 2 /\ Len(poverty) = 2 /\ Len(revenue) = 2

\* ---- C3
CommonYears ==
    {co2[i].year : i \in 1..Len(co2)} \cap {poverty[i].year : i \in 1..Len(poverty)}
       \cap {revenue[i].year : i \in 1..Len(revenue)}

\* C3: with latest_year=None, the year load_and_merge selects is the maximum
\* year present in all three datasets (whenever they share a year).
C3_MaxCommonYear ==
    (Loaded /\ CommonYears # {}) =>
       /\ year \in CommonYears
       /\ \A y \in CommonYears : y <= year

\* ---- C4
\* C4 (as stated): after normalize, in each raw column every record holding
\* the column's minimum has min-max value 0 and every record holding the
\* column's maximum has min-max value 1.
C4_Original ==
    HasMm =>
       \A i \in Rows :
          /\ (\A j \in Rows : df[i].co2_per_capita <= df[j].co2_per_capita) =>
                FracIs(df[i].co2_mm, 0)
          /\ (\A j \in Rows : df[i].co2_per_capita >= df[j].co2_per_capita) =>
                FracIs(df[i].co2_mm, 1)
          /\ (\A j \in Rows : df[i].extreme_poverty_share <= df[j].extreme_poverty_share) =>
                FracIs(df[i].poverty_mm, 0)
          /\ (\A j \in Rows : df[i].extreme_poverty_share >= df[j].extreme_poverty_share) =>
                FracIs(df[i].poverty_mm, 1)
          /\ (\A j \in Rows : df[i].revenue_gap_pct <= df[j].revenue_gap_pct) =>
                FracIs(df[i].revenue_mm, 0)
          /\ (\A j \in Rows : df[i].revenue_gap_pct >= df[j].revenue_gap_pct) =>
                FracIs(df[i].revenue_mm, 1)

Co2Constant == \A i, j \in Rows : df[i].co2_per_capita = df[j].co2_per_capita
PovertyConstant == \A i, j \in Rows : df[i].extreme_poverty_share = df[j].extreme_poverty_share
RevenueConstant == \A i, j \in Rows : df[i].revenue_gap_pct = df[j].revenue_gap_pct

\* C4 (amended): the minimum of a column maps to 0; the maximum maps to 1
\* when the column holds two different values, and to 0 when it is constant.
C4_Amended ==
    HasMm =>
       \A i \in Rows :
          /\ (\A j \in Rows : df[i].co2_per_capita <= df[j].co2_per_capita) =>
                FracIs(df[i].co2_mm, 0)
          /\ (\A j \in Rows : df[i].co2_per_capita >= df[j].co2_per_capita) =>
                FracIs(df[i].co2_mm, IF Co2Constant THEN 0 ELSE 1)
          /\ (\A j \in Rows : df[i].extreme_poverty_share <= df[j].extreme_poverty_share) =>
                FracIs(df[i].poverty_mm, 0)
          /\ (\A j \in Rows : df[i].extreme_poverty_share >= df[j].extreme_poverty_share) =>
                FracIs(df[i].poverty_mm, IF PovertyConstant THEN 0 ELSE 1)
          /\ (\A j \in Rows : df[i].revenue_gap_pct <= df[j].revenue_gap_pct) =>
                FracIs(df[i].revenue_mm, 0)
          /\ (\A j \in Rows : df[i].revenue_gap_pct >= df[j].revenue_gap_pct) =>
                FracIs(df[i].revenue_mm, IF RevenueConstant THEN 0 ELSE 1)

\* a normalized table with a column of different values whose minimum is not
\* 0, and a constant column
C4_Witness ==
    /\ HasMm
    /\ ~Co2Constant
    /\ \A i \in Rows : df[i].co2_per_capita > 0
    /\ \E i \in Rows : FracIs(df[i].co2_mm, 1)
    /\ PovertyConstant

\* ---- C5
\* C5: after compute_cfi, CFI(a) > CFI(b) implies CFI_rank(a) < CFI_rank(b).
C5_RankStrict ==
    HasCfi =>
       \A a, b \in Rows :
          RLt(df[b].CFI, df[a].CFI) =>
             df[a].CFI_rank.n * df[b].CFI_rank.d < df[b].CFI_rank.n * df[a].CFI_rank.d

\* a ranked table with two records of different CFI and two of equal CFI
C5_Witness ==
    /\ HasCfi
    /\ \E a, b \in Rows : RLt(df[b].CFI, df[a].CFI)
    /\ \E a, b \in Rows : a # b /\ REq(df[a].CFI, df[b].CFI)

\* ---- C6
\* lowest co2, highest poverty and revenue of all records
Fairest(a) ==
    \A b \in Rows :
       /\ df[a].co2_per_capita <= df[b].co2_per_capita
       /\ df[a].extreme_poverty_share >= df[b].extreme_poverty_share
       /\ df[a].revenue_gap_pct >= df[b].revenue_gap_pct
StrictlyFairest(a) ==
    \A b \in Rows \ {a} :
       /\ df[a].co2_per_capita < df[b].co2_per_capita
       /\ df[a].extreme_poverty_share > df[b].extreme_poverty_share
       /\ df[a].revenue_gap_pct > df[b].revenue_gap_pct
HighestCfi(a) == \A b \in Rows : RLe(df[b].CFI, df[a].CFI)
RankIs(a, k) == df[a].CFI_rank.n = k * df[a].CFI_rank.d

\* C6 (as stated): after normalize and compute_cfi, a country with the lowest
\* co2 and the highest poverty and revenue of all records has the highest CFI
\* and CFI_rank 1.
C6_Original ==
    HasDecile => \A a \in Rows : Fairest(a) => (HighestCfi(a) /\ RankIs(a, 1))

\* C6 (amended): such a country has the highest CFI, possibly shared, and its
\* CFI_rank is (k + 1) / 2 where k records hold that CFI; the rank is 1 when
\* it is strictly lowest in co2 and strictly highest in poverty and revenue.
C6_Amended ==
    HasCfi =>
       \A a \in Rows :
          Fairest(a) =>
             /\ HighestCfi(a)
             /\ 2 * df[a].CFI_rank.n =
                   (Cardinality({b \in Rows : REq(df[b].CFI, df[a].CFI)}) + 1)
                      * df[a].CFI_rank.d
             /\ StrictlyFairest(a) => RankIs(a, 1)

\* the example of the specification up to scale: co2 ascending, poverty and
\* revenue descending over three countries; the first has rank 1
C6_Witness ==
    /\ HasDecile
    /\ Len(df) = 3
    /\ StrictlyFairest(1)
    /\ df[1].co2_per_capita < df[2].co2_per_capita
    /\ df[2].co2_per_capita < df[3].co2_per_capita
    /\ df[2].extreme_poverty_share > df[3].extreme_poverty_share
    /\ df[2].revenue_gap_pct > df[3].revenue_gap_pct
    /\ RankIs(1, 1)

\* ---- C7
\* C7: when the merged table is empty, main raises in normalize: it never
\* prints the completion message and writes no HTML artifact.
C7_EmptyTableRaises ==
    (Loaded /\ MergedTable(co2, poverty, revenue, year) = <<>>) =>
       /\ pc = "normalize" \/ (pc = "raised" /\ exc = "normalize")
       /\ outputs = {}
       /\ ~printed

\* main has raised in normalize although every file holds a row
C7_Witness ==
    /\ pc = "raised"
    /\ exc = "normalize"
    /\ co2 # <<>> /\ poverty # <<>> /\ revenue # <<>>

\* ---- C8
\* C8: after normalize and compute_cfi the three min-max values of every
\* record lie in [0, 1], the denominator co2_mm + epsilon is positive and CFI
\* is non-negative.
C8_CfiNonNegative ==
    /\ HasMm =>
          \A i \in Rows :
             /\ InUnit(df[i].co2_mm)
             /\ InUnit(df[i].poverty_mm)
             /\ InUnit(df[i].revenue_mm)
             /\ RLt(RZero, RAdd(RatOf(df[i].co2_mm), epsilon))
    /\ HasCfi =>
          \A i \in Rows :
             /\ BCmp(df[i].CFI.den, BNat(0)) > 0
             /\ RLe(RZero, df[i].CFI)

\* a table with CFI where a record has co2_mm = 0 (the denominator is epsilon
\* alone) and a positive CFI
C8_Witness ==
    /\ HasCfi
    /\ \E i \in Rows : FracIs(df[i].co2_mm, 0) /\ RLt(RZero, df[i].CFI)

\* ---- C10
\* C10: the returned table contains a country iff the country has, in each
\* of the three datasets, a row for the selected year with a present value;
\* every returned record has the three indicators present.
C10_InnerJoin ==
    Loaded =>
       /\ \A c \in AllCountries :
             (\E i \in Rows : df[i].country = c) <=>
                (Co2Present(c) # {} /\ PovertyPresent(c) # {} /\ RevenuePresent(c) # {})
       /\ \A i \in Rows :
             /\ df[i].co2_per_capita # NaN
             /\ df[i].extreme_poverty_share # NaN
             /\ df[i].revenue_gap_pct # NaN

\* a non-empty returned table that leaves out a country of the CO2 file
C10_Witness ==
    /\ Loaded
    /\ df # <<>>
    /\ \E i \in 1..Len(co2) : \A j \in Rows : df[j].country # co2[i].country

====
